---- MODULE Spec2Model ----
(***************************************************************************)
(* A model of fort_depend.py: the construction of a FortranProject from a  *)
(* list of source files, a macro mapping and a list of ignored modules.    *)
(*                                                                         *)
(* Strings (file names, module names) are sequences of one-character       *)
(* strings, so that lower(), replace(), re.match() and sorted() are        *)
(* computed character by character.  A source line is represented by what  *)
(* the three regular expressions of the source extract from it.            *)
(***************************************************************************)
EXTENDS Integers, Sequences, FiniteSets, TLC

VARIABLES files, contents, macros, ignore_modules,
          pc, loaded, fmodules, uses, fuses, modules,
          depends_by_module, depends_by_file, diag, error

vars == <<files, contents, macros, ignore_modules,
          pc, loaded, fmodules, uses, fuses, modules,
          depends_by_module, depends_by_file, diag, error>>

inputs == <<files, contents, macros, ignore_modules>>

----------------------------------------------------------------------------
(* Bounds of the model. *)

MaxFiles == 2

MaxMacros == 1

MaxIgnore == 1

----------------------------------------------------------------------------
(* Strings. *)

CodePoint(c) ==
  CASE c = "A" -> 65  [] c = "M" -> 77
    [] c = "a" -> 97  [] c = "b" -> 98  [] c = "e" -> 101
    [] c = "m" -> 109 [] c = "n" -> 110 [] c = "p" -> 112
    [] c = "t" -> 116 [] c = "y" -> 121

LowerChar(c) ==
  CASE c = "A" -> "a" [] c = "M" -> "m" [] OTHER -> c

(* str.lower() *)
LowerStr(s) == [i \in 1..Len(s) |-> LowerChar(s[i])]

(* s < t for Python strings: lexicographic by code point *)
RECURSIVE StrLess(_, _)
StrLess(s, t) ==
  IF t = <<>> THEN FALSE
  ELSE IF s = <<>> THEN TRUE
  ELSE IF s[1] = t[1] THEN StrLess(Tail(s), Tail(t))
  ELSE CodePoint(s[1]) < CodePoint(t[1])

(* str.replace(k, v): every non-overlapping occurrence of k, left to right, *)
(* compared case-sensitively; an empty k matches before every character and *)
(* at the end.                                                              *)
RECURSIVE StrReplace(_, _, _)
StrReplace(s, k, v) ==
  IF k = <<>>
    THEN v \o (IF s = <<>> THEN <<>> ELSE <<s[1]>> \o StrReplace(Tail(s), k, v))
  ELSE IF Len(s) < Len(k) THEN s
  ELSE IF SubSeq(s, 1, Len(k)) = k
    THEN v \o StrReplace(SubSeq(s, Len(k) + 1, Len(s)), k, v)
  ELSE <<s[1]>> \o StrReplace(Tail(s), k, v)

(* re.match(k, mod, re.IGNORECASE) for a pattern k made of word characters: *)
(* k is a prefix of mod up to letter case.                                  *)
ReMatch(k, mod) ==
  /\ Len(k) <= Len(mod)
  /\ LowerStr(SubSeq(mod, 1, Len(k))) = LowerStr(k)

----------------------------------------------------------------------------
(* Sequences. *)

Range(s) == {s[i] : i \in DOMAIN s}

(* the orders in which iterating a Python set of strings can yield it *)
Perms(S) ==
  {s \in [1..Cardinality(S) -> S] :
     \A i, j \in 1..Cardinality(S) : i # j => s[i] # s[j]}

(* list.remove(x): the first occurrence only; ValueError is swallowed by    *)
(* the callers, leaving the list as it is.                                  *)
RECURSIVE RemoveFirst(_, _)
RemoveFirst(s, x) ==
  IF s = <<>> THEN <<>>
  ELSE IF s[1] = x THEN Tail(s)
  ELSE <<s[1]>> \o RemoveFirst(Tail(s), x)

(* one step of a stable sort of strings: x goes after every element <= x *)
RECURSIVE InsertStr(_, _)
InsertStr(s, x) ==
  IF s = <<>> THEN <<x>>
  ELSE IF StrLess(x, s[1]) THEN <<x>> \o s
  ELSE <<s[1]>> \o InsertStr(Tail(s), x)

(* sorted(list of strings) *)
RECURSIVE SortedStr(_)
SortedStr(s) ==
  IF s = <<>> THEN <<>>
  ELSE InsertStr(SortedStr(SubSeq(s, 1, Len(s) - 1)), s[Len(s)])

(* sorted(set of strings) *)
RECURSIVE SortedSet(_)
SortedSet(S) ==
  IF S = {} THEN <<>>
  ELSE LET x == CHOOSE y \in S : \A z \in S : ~StrLess(z, y)
       IN  <<x>> \o SortedSet(S \ {x})

RECURSIVE InsertByFile(_, _)
InsertByFile(s, x) ==
  IF s = <<>> THEN <<x>>
  ELSE IF StrLess(x.source_file, s[1].source_file) THEN <<x>> \o s
  ELSE <<s[1]>> \o InsertByFile(Tail(s), x)

(* sorted(graph, key=lambda f: f.source_file.filename): stable *)
RECURSIVE SortedByFile(_)
SortedByFile(s) ==
  IF s = <<>> THEN <<>>
  ELSE InsertByFile(SortedByFile(SubSeq(s, 1, Len(s) - 1)), s[Len(s)])

----------------------------------------------------------------------------
(* Source lines.  UNIT_REGEX, END_REGEX and USE_REGEX each start with a     *)
(* different keyword, so a line matches at most one of them; a line is the  *)
(* regular expression it matches together with the groups that one extracts.*)

UnitLine(t, n) == [kind |-> "unit", unit_type |-> t, modname |-> n]

EndLine == [kind |-> "end", unit_type |-> "", modname |-> <<>>]

UseLine(n) == [kind |-> "use", unit_type |-> "", modname |-> n]

OtherLine == [kind |-> "other", unit_type |-> "", modname |-> <<>>]

(* enumerate(contents) restricted to the lines of one kind: 0-based numbers *)
LineNumbers(lines, kind) ==
  SelectSeq([i \in 1..Len(lines) |-> i - 1], LAMBDA n : lines[n + 1].kind = kind)

(* contents[a:b] for 0 <= a, 0 <= b <= len(contents) *)
Slice(lines, a, b) == SubSeq(lines, a + 1, b)

(* unit_type.strip().lower() on the keyword matched by UNIT_REGEX *)
LowerType(t) ==
  CASE t = "MODULE" -> "module" [] t = "PROGRAM" -> "program" [] OTHER -> t

----------------------------------------------------------------------------
(* FortranModule *)

(* the macro loop of FortranModule.get_uses for one element of uniq_mods:   *)
(* every entry is matched against the original name, a later matching      *)
(* entry overwrites the result of an earlier one.                           *)
RECURSIVE MacroLoop(_, _, _)
MacroLoop(mod, ms, cur) ==
  IF ms = <<>> THEN cur
  ELSE MacroLoop(mod, Tail(ms),
                 IF ReMatch(ms[1][1], mod)
                   THEN StrReplace(mod, ms[1][1], ms[1][2])
                   ELSE cur)

MacroSubst(mod, ms) == MacroLoop(mod, ms, mod)

(* the names found by USE_REGEX in contents[defined_at:end] *)
FoundUses(lines, defined_at, end) ==
  LET body == Slice(lines, defined_at, end)
  IN  {body[i].modname : i \in {j \in DOMAIN body : body[j].kind = "use"}}

(* FortranModule.get_uses: the lists it can return.  list(set(uses)) keeps  *)
(* one copy of every name in the iteration order of a set of strings, which *)
(* is not fixed; the macros are then applied element by element.            *)
Module_get_uses(lines, defined_at, end, ms) ==
  {[i \in DOMAIN p |-> MacroSubst(p[i], ms)] :
     p \in Perms(FoundUses(lines, defined_at, end))}

(* FortranModule.__init__ for a unit found in a file (uses is kept apart) *)
FortranModule(unit_type, name, source_file, defined_at, end) ==
  [unit_type |-> LowerType(unit_type), name |-> LowerStr(name),
   source_file |-> source_file, defined_at |-> defined_at, end |-> end]

----------------------------------------------------------------------------
(* FortranFile *)

(* FortranFile.get_modules: ok = FALSE stands for the ValueError, which     *)
(* carries the file name and the two counts.                                *)
File_get_modules(filename, lines) ==
  LET starts == LineNumbers(lines, "unit")
      ends   == LineNumbers(lines, "end")
      found_units == [i \in DOMAIN starts |-> lines[starts[i] + 1]]
      keys   == {found_units[i].modname : i \in DOMAIN found_units}
      last(k) == CHOOSE i \in DOMAIN found_units :
                   /\ found_units[i].modname = k
                   /\ \A j \in DOMAIN found_units :
                        j > i => found_units[j].modname # k
  IN  IF found_units # <<>>
         /\ (Len(found_units) # Len(starts) \/ Len(starts) # Len(ends))
        THEN [ok |-> FALSE, filename |-> filename,
              begins |-> Len(starts), ends |-> Len(ends), contains |-> <<>>]
        ELSE [ok |-> TRUE, filename |-> filename,
              begins |-> Len(starts), ends |-> Len(ends),
              contains |->
                [k \in keys |->
                   FortranModule(found_units[last(k)].unit_type, k, filename,
                                 starts[last(k)], ends[last(k)])]]

(* FortranFile.get_uses, given the uses of the file's modules *)
File_get_uses(mods, u) ==
  SortedSet(UNION {Range(u[k]) : k \in DOMAIN mods})

----------------------------------------------------------------------------
(* FortranProject *)

(* FortranProject.get_modules: dict.update file after file, the last file   *)
(* that has a key wins.  A module is named by <<file, key>>.                *)
Project_get_modules(fs, fmods) ==
  LET keys == UNION {DOMAIN fmods[fs[i]] : i \in DOMAIN fs}
      last(k) == CHOOSE i \in DOMAIN fs :
                   /\ k \in DOMAIN fmods[fs[i]]
                   /\ \A j \in DOMAIN fs : j > i => k \notin DOMAIN fmods[fs[j]]
  IN  [k \in keys |-> <<fs[last(k)], k>>]

(* one iteration of the loop of remove_ignored_modules *)
RemoveOne(st, ignore_mod) ==
  LET m1   == [k \in DOMAIN st.modules \ {ignore_mod} |-> st.modules[k]]
      live == Range(m1)
  IN  [modules |-> m1,
       uses    |-> [id \in DOMAIN st.uses |->
                      IF id \in live THEN RemoveFirst(st.uses[id], ignore_mod)
                                     ELSE st.uses[id]],
       fuses   |-> [f \in DOMAIN st.fuses |-> RemoveFirst(st.fuses[f], ignore_mod)]]

(* FortranProject.remove_ignored_modules *)
RECURSIVE remove_ignored_modules(_, _)
remove_ignored_modules(st, ignore) ==
  IF ignore = <<>> THEN st
  ELSE remove_ignored_modules(RemoveOne(st, ignore[1]), Tail(ignore))

EmptyFile == <<"e", "m", "p", "t", "y">>

(* FortranModule(unit_type='module', name=used_mod): no source file is      *)
(* given, so source_file is FortranFile('empty') and uses is never set.     *)
Placeholder(used_mod) ==
  [placeholder |-> TRUE, unit_type |-> LowerType("module"),
   name |-> LowerStr(used_mod), source_file |-> EmptyFile, key |-> <<>>]

(* self.modules[used_mod], as it appears in a dependency list *)
Resolved(fmods, id) ==
  [placeholder |-> FALSE, unit_type |-> fmods[id[1]][id[2]].unit_type,
   name |-> fmods[id[1]][id[2]].name, source_file |-> id[1], key |-> id[2]]

(* the inner loop of get_depends_by_module *)
ModuleGraph(mods, fmods, us) ==
  [i \in DOMAIN us |->
     IF us[i] \in DOMAIN mods THEN Resolved(fmods, mods[us[i]])
                              ELSE Placeholder(us[i])]

(* FortranProject.get_depends_by_module *)
get_depends_by_module(mods, fmods, u) ==
  [id \in Range(mods) |-> SortedByFile(ModuleGraph(mods, fmods, u[id]))]

(* the messages printed by get_depends_by_module, with the module at hand *)
ModuleDiag(mods, u) ==
  UNION {{[pass |-> "module", name |-> u[id][i], at |-> id] :
            i \in {j \in DOMAIN u[id] : u[id][j] \notin DOMAIN mods}} :
         id \in Range(mods)}

(* IsSelf with the test for a self-dependency left out *)
IsSelf_Omitted(mod_file, source_file) == FALSE

(* mod_file.filename.lower() == source_file.filename.lower() *)
IsSelf(mod_file, source_file) == LowerStr(mod_file) = LowerStr(source_file)

(* FileGraph with the KeyError caught around the loop instead of inside it: *)
(* the first name that is not defined ends the loop.                        *)
RECURSIVE FileGraph_StopAtMiss(_, _, _)
FileGraph_StopAtMiss(mods, filename, us) ==
  IF us = <<>> THEN <<>>
  ELSE IF us[1] \in DOMAIN mods
    THEN IF IsSelf(mods[us[1]][1], filename)
           THEN FileGraph_StopAtMiss(mods, filename, Tail(us))
           ELSE <<mods[us[1]][1]>> \o FileGraph_StopAtMiss(mods, filename, Tail(us))
  ELSE <<>>

(* the inner loop of get_depends_by_file *)
RECURSIVE FileGraph(_, _, _)
FileGraph(mods, filename, us) ==
  IF us = <<>> THEN <<>>
  ELSE IF us[1] \in DOMAIN mods
    THEN IF IsSelf(mods[us[1]][1], filename)
           THEN FileGraph(mods, filename, Tail(us))
           ELSE <<mods[us[1]][1]>> \o FileGraph(mods, filename, Tail(us))
  ELSE FileGraph(mods, filename, Tail(us))

(* FortranProject.get_depends_by_file *)
get_depends_by_file(mods, fs, fu) ==
  [f \in Range(fs) |-> SortedStr(FileGraph(mods, f, fu[f]))]

(* the messages printed by get_depends_by_file, with the file at hand *)
FileDiag(mods, fs, fu) ==
  UNION {{[pass |-> "file", name |-> n, at |-> f] :
            n \in {x \in Range(fu[f]) : x \notin DOMAIN mods}} :
         f \in Range(fs)}

----------------------------------------------------------------------------
(* The inputs of a run: the files argument, the text of each file, the      *)
(* macros dictionary in its iteration order, and the ignore_modules list.   *)
(* None and an empty collection behave alike for macros and ignore_modules. *)

SeqsUpTo(S, n) == UNION {[1..k -> S] : k \in 0..n}

Paths == {<<"a">>, <<"A">>, <<"b">>}

name_m == <<"m">>

name_M == <<"M">>

name_n == <<"n">>

name_mm == <<"m", "m">>

(* The texts a file can have: units with and without imports, names in     *)
(* both letter cases, a unit importing a unit of its own file, a file       *)
(* without units, and files whose begin and end lines do not balance.       *)
Corpus ==
  { <<UnitLine("MODULE", name_M), OtherLine, EndLine>>,
    <<UnitLine("module", name_m), EndLine, UnitLine("module", name_n), EndLine>>,
    <<UnitLine("module", name_m), UseLine(name_n), EndLine,
      UnitLine("module", name_n), EndLine>>,
    <<UnitLine("module", name_m), UseLine(name_n), EndLine>>,
    <<UnitLine("module", name_n), UseLine(name_m), UseLine(name_M), EndLine>>,
    <<UnitLine("module", name_M), UseLine(name_m), UseLine(name_n), EndLine>>,
    <<UnitLine("program", name_n), UseLine(name_mm), EndLine>>,
    <<EndLine>>,
    <<UnitLine("module", name_m), UseLine(name_n)>> }

MacroEntries == { <<name_M, name_m>>, <<name_m, name_n>> }

IgnoreNames == {name_m, name_n}

FileLists ==
  {fs \in SeqsUpTo(Paths, MaxFiles) :
     \A i, j \in DOMAIN fs : i # j => fs[i] # fs[j]}

MacroLists ==
  {ms \in SeqsUpTo(MacroEntries, MaxMacros) :
     \A i, j \in DOMAIN ms : i # j => ms[i][1] # ms[j][1]}

IgnoreLists == SeqsUpTo(IgnoreNames, MaxIgnore)

----------------------------------------------------------------------------
(* FortranProject.__init__ *)

Init ==
  /\ files \in FileLists
  /\ contents \in [Range(files) -> Corpus]
  /\ macros \in MacroLists
  /\ ignore_modules \in IgnoreLists
  /\ pc = "load"
  /\ loaded = 0
  /\ fmodules = <<>>
  /\ uses = <<>>
  /\ fuses = <<>>
  /\ modules = <<>>
  /\ depends_by_module = <<>>
  /\ depends_by_file = <<>>
  /\ diag = {}
  /\ error = <<>>

(* FortranFile(filename, macros) for the next file name: get_modules, with  *)
(* the uses of every module it found, then get_uses.                        *)
LoadFile ==
  /\ pc = "load"
  /\ loaded < Len(files)
  /\ LET f    == files[loaded + 1]
         r    == File_get_modules(f, contents[f])
         mods == r.contains
         can(k) == Module_get_uses(contents[f], mods[k].defined_at, mods[k].end, macros)
     IN  /\ r.ok
         /\ \E u \in [DOMAIN mods -> UNION {can(k) : k \in DOMAIN mods}] :
              /\ \A k \in DOMAIN mods : u[k] \in can(k)
              /\ fmodules' = [g \in DOMAIN fmodules \cup {f} |->
                                IF g = f THEN mods ELSE fmodules[g]]
              /\ uses' = [id \in DOMAIN uses \cup {<<f, k>> : k \in DOMAIN mods} |->
                            IF id[1] = f THEN u[id[2]] ELSE uses[id]]
              /\ fuses' = [g \in DOMAIN fuses \cup {f} |->
                             IF g = f THEN File_get_uses(mods, u) ELSE fuses[g]]
  /\ loaded' = loaded + 1
  /\ UNCHANGED <<inputs, pc, modules, depends_by_module, depends_by_file, diag, error>>

(* get_modules raises ValueError: the construction ends with it *)
LoadFileError ==
  /\ pc = "load"
  /\ loaded < Len(files)
  /\ LET f == files[loaded + 1]
         r == File_get_modules(f, contents[f])
     IN  /\ ~r.ok
         /\ error' = [filename |-> r.filename, begins |-> r.begins, ends |-> r.ends]
  /\ pc' = "failed"
  /\ UNCHANGED <<inputs, loaded, fmodules, uses, fuses, modules,
                 depends_by_module, depends_by_file, diag>>

GetModules ==
  /\ pc = "load"
  /\ loaded = Len(files)
  /\ modules' = Project_get_modules(files, fmodules)
  /\ pc' = "ignore"
  /\ UNCHANGED <<inputs, loaded, fmodules, uses, fuses,
                 depends_by_module, depends_by_file, diag, error>>

RemoveIgnoredModules ==
  /\ pc = "ignore"
  /\ LET st == remove_ignored_modules(
                 [modules |-> modules, uses |-> uses, fuses |-> fuses],
                 ignore_modules)
     IN  /\ modules' = st.modules
         /\ uses' = st.uses
         /\ fuses' = st.fuses
  /\ pc' = "by_module"
  /\ UNCHANGED <<inputs, loaded, fmodules, depends_by_module, depends_by_file,
                 diag, error>>

GetDependsByModule ==
  /\ pc = "by_module"
  /\ depends_by_module' = get_depends_by_module(modules, fmodules, uses)
  /\ diag' = diag \cup ModuleDiag(modules, uses)
  /\ pc' = "by_file"
  /\ UNCHANGED <<inputs, loaded, fmodules, uses, fuses, modules,
                 depends_by_file, error>>

GetDependsByFile ==
  /\ pc = "by_file"
  /\ depends_by_file' = get_depends_by_file(modules, files, fuses)
  /\ diag' = diag \cup FileDiag(modules, files, fuses)
  /\ pc' = "done"
  /\ UNCHANGED <<inputs, loaded, fmodules, uses, fuses, modules,
                 depends_by_module, error>>

Next ==
  \/ LoadFile
  \/ LoadFileError
  \/ GetModules
  \/ RemoveIgnoredModules
  \/ GetDependsByModule
  \/ GetDependsByFile

Spec == Init /\ [][Next]_vars

----------------------------------------------------------------------------
(* Vocabulary of the properties. *)

NoDuplicates(s) == \A i, j \in DOMAIN s : i # j => s[i] # s[j]

IsSortedStr(s) == \A i, j \in DOMAIN s : i < j => ~StrLess(s[j], s[i])

(* the numbers of unit-open and unit-close lines of a file *)
Begins(f) == Len(LineNumbers(contents[f], "unit"))

Ends(f) == Len(LineNumbers(contents[f], "end"))

(* ignore filtering has run *)
Filtered == pc \in {"by_module", "by_file", "done"}

(* the modules declared in f, in the global map or not *)
UnitsOf(f) == {<<f, k>> : k \in DOMAIN fmodules[f]}

(* the files that define the resolved entries of the dependency lists of    *)
(* the modules of f that are keys of depends_by_module                      *)
UnitDepFilesOf(f) ==
  {e.source_file :
     e \in {d \in UNION {Range(depends_by_module[id]) :
                           id \in UnitsOf(f) \cap DOMAIN depends_by_module} :
              ~d.placeholder}}

(* the names imported by any module declared in f, less the ignored names *)
ImportsOf(f) ==
  UNION {Range(uses[id]) : id \in UnitsOf(f)} \ Range(ignore_modules)

(* the files defining the modules those names resolve to *)
ResolvedFilesOf(f) == {modules[x][1] : x \in ImportsOf(f) \cap DOMAIN modules}

SamePathUpToCase(f) == {g \in Range(files) : LowerStr(g) = LowerStr(f)}

(* what replacing exactly the matched prefix of raw gives, for each entry   *)
(* of macros whose pattern matches raw; raw itself when none matches        *)
MacroExpected(raw) ==
  LET hits == {i \in DOMAIN macros : ReMatch(macros[i][1], raw)}
  IN  IF hits = {} THEN {raw}
      ELSE {macros[i][2] \o SubSeq(raw, Len(macros[i][1]) + 1, Len(raw)) : i \in hits}

----------------------------------------------------------------------------
(* C1: after construction every file of the project is a key of             *)
(* depends_by_file and never occurs in its own dependency list.             *)
C1_SelfDependencyElision ==
  pc = "done" =>
    \A f \in Range(files) :
      /\ f \in DOMAIN depends_by_file
      /\ f \notin Range(depends_by_file[f])

(* a finished construction in which a module of a file imports another     *)
(* module that the global map places in that same file                      *)
C1_Witness ==
  /\ pc = "done"
  /\ \E f \in Range(files) :
       \E id \in UnitsOf(f) \cap Range(modules) :
         \E x \in Range(uses[id]) \cap Range(fuses[f]) :
           /\ x # id[2]
           /\ x \in DOMAIN modules
           /\ modules[x] = <<f, x>>
           /\ f \notin Range(depends_by_file[f])

(* C2: after construction no dependency list of depends_by_file holds a     *)
(* file more than once.                                                     *)
C2_FileDepsDeduplicated ==
  pc = "done" => \A f \in DOMAIN depends_by_file : NoDuplicates(depends_by_file[f])

(* C3: a file whose numbers of unit-open and unit-close lines differ is     *)
(* never loaded: no unit mapping is kept for it, and the construction ends  *)
(* at it with the error that names the file and the two counts.             *)
C3_StructuralMismatchFatal ==
  \A i \in DOMAIN files :
    Begins(files[i]) # Ends(files[i]) =>
      /\ files[i] \notin DOMAIN fmodules
      /\ loaded < i
      /\ (loaded = i - 1 /\ pc # "load") =>
           /\ pc = "failed"
           /\ error = [filename |-> files[i], begins |-> Begins(files[i]),
                       ends |-> Ends(files[i])]

(* C4: after construction, for every module U of the global map and every   *)
(* name N among its imports that is no key of the global map: the           *)
(* dependency list of U holds a placeholder of kind module named N (in      *)
(* lower case), a message of the module pass names N, the file pass adds no *)
(* file for N and a message of the file pass names N for the file of U, and *)
(* only modules of the global map are keys of depends_by_module.            *)
C4_UnresolvedImport ==
  pc = "done" =>
    /\ DOMAIN depends_by_module = Range(modules)
    /\ \A id \in Range(modules) :
         \A N \in Range(uses[id]) :
           N \notin DOMAIN modules =>
             /\ \E e \in Range(depends_by_module[id]) :
                  /\ e.placeholder
                  /\ e.unit_type = "module"
                  /\ e.name = LowerStr(N)
             /\ [pass |-> "module", name |-> N, at |-> id] \in diag
             /\ FileGraph(modules, id[1], <<N>>) = <<>>
             /\ [pass |-> "file", name |-> N, at |-> id[1]] \in diag

(* C5: every module is stored, in its file's map and in the global map,     *)
(* under its lower-case name, so that an import resolves to a module        *)
(* declared under the same name in another letter case.                     *)
C5_LowercaseKeys ==
  /\ \A f \in DOMAIN fmodules :
       \A k \in DOMAIN fmodules[f] : k = fmodules[f][k].name
  /\ \A k \in DOMAIN modules : k = LowerStr(k)
  /\ (pc = "done" /\ ignore_modules = <<>>) =>
       \A id \in Range(modules) :
         \A N \in Range(uses[id]) :
           (\E g \in DOMAIN fmodules :
              \E k \in DOMAIN fmodules[g] : fmodules[g][k].name = LowerStr(N))
             => \A e \in Range(depends_by_module[id]) :
                  ~(e.placeholder /\ e.name = LowerStr(N))

(* C6: the import list of every module holds no name twice and is sorted.   *)
C6_ImportsUniqueSorted ==
  \A id \in DOMAIN uses : NoDuplicates(uses[id]) /\ IsSortedStr(uses[id])

(* C7: once ignore filtering has run, an ignored name is no key of the      *)
(* global map, is imported by no module of the global map and by no file,   *)
(* and after construction stands in no dependency list of                   *)
(* depends_by_module, neither resolved nor as a placeholder.                *)
C7_IgnoredNamesRemoved ==
  Filtered =>
    \A i \in DOMAIN ignore_modules :
      /\ ignore_modules[i] \notin DOMAIN modules
      /\ \A id \in Range(modules) : ignore_modules[i] \notin Range(uses[id])
      /\ \A f \in DOMAIN fuses : ignore_modules[i] \notin Range(fuses[f])
      /\ pc = "done" =>
           \A id \in DOMAIN depends_by_module :
             \A e \in Range(depends_by_module[id]) :
               /\ ~(e.placeholder /\ e.name = LowerStr(ignore_modules[i]))
               /\ ~(~e.placeholder /\ e.key = ignore_modules[i])

(* C8: while the files are loaded, the imports of every loaded module are   *)
(* the names found in its text, each with exactly the prefix matched by a   *)
(* macro pattern replaced by the replacement, and unchanged when no pattern *)
(* matches.                                                                 *)
C8_MacroSubstitution ==
  pc = "load" =>
    \A f \in DOMAIN fmodules :
      \A k \in DOMAIN fmodules[f] :
        LET found == FoundUses(contents[f], fmodules[f][k].defined_at,
                               fmodules[f][k].end)
        IN  /\ \A raw \in found :
                 \E r \in Range(uses[<<f, k>>]) : r \in MacroExpected(raw)
            /\ \A r \in Range(uses[<<f, k>>]) :
                 \E raw \in found : r \in MacroExpected(raw)

(* C9: after construction, every name imported by a file either resolves to *)
(* a module of another file, which is then among the file's dependencies,   *)
(* or resolves to a module of the file itself, or has a message of the file *)
(* pass.                                                                    *)
C9_NoSilentEdgeLoss ==
  pc = "done" =>
    \A f \in Range(files) :
      \A N \in Range(fuses[f]) :
        \/ /\ N \in DOMAIN modules
           /\ modules[N][1] # f
           /\ modules[N][1] \in Range(depends_by_file[f])
        \/ /\ N \in DOMAIN modules
           /\ modules[N][1] = f
        \/ [pass |-> "file", name |-> N, at |-> f] \in diag

(* C10 as stated: after construction the files in depends_by_file[F] are    *)
(* the files defining the resolved entries of depends_by_module[U], over    *)
(* the modules U of F that are keys of depends_by_module, less F.           *)
C10_ProjectionOfUnitDeps ==
  pc = "done" =>
    \A f \in Range(files) : Range(depends_by_file[f]) = UnitDepFilesOf(f) \ {f}

(* C10 amended: after construction the files in depends_by_file[F] are the  *)
(* files defining the modules that the imports of every module declared in  *)
(* F resolve to (ignored and shadowed modules of F included, ignored names  *)
(* excluded), less the files whose path is F's up to letter case; they      *)
(* include the files of the resolved entries of depends_by_module for the   *)
(* modules of F, less those same files.                                     *)
C10_ProjectionOfDeclaredUnits ==
  pc = "done" =>
    \A f \in Range(files) :
      /\ Range(depends_by_file[f]) = ResolvedFilesOf(f) \ SamePathUpToCase(f)
      /\ (UnitDepFilesOf(f) \ SamePathUpToCase(f)) \subseteq Range(depends_by_file[f])

(* a finished construction in which a module declared in F is no key of     *)
(* depends_by_module (ignored or shadowed) and one of its imports gives F a *)
(* dependency that no dependency list of F's remaining modules accounts for *)
C10_Witness ==
  /\ pc = "done"
  /\ \E f \in Range(files) :
       \E id \in UnitsOf(f) \ DOMAIN depends_by_module :
         \E x \in Range(uses[id]) :
           /\ x \in DOMAIN modules
           /\ modules[x][1] \in Range(depends_by_file[f])
           /\ modules[x][1] \notin UnitDepFilesOf(f)

====
